---- MODULE Spec2Model ----
(***************************************************************************)
(* State-machine model of pmql (xenzh/poor-mans-ql): the Builder that      *)
(* flattens an expression into an operation list and validates it, the     *)
(* sealed Expression, the per-variable invalidation bitmaps, the Results   *)
(* cache and the Context that is evaluated repeatedly.                     *)
(*                                                                         *)
(* Node ids, constant-pool indices and variable indices are 0-based as in  *)
(* the source; TLA+ sequences are 1-based, so node id lives at ops[id+1].  *)
(***************************************************************************)
EXTENDS Integers, Sequences, FiniteSets, TLC

VARIABLES
    phase,        \* "build": Builder alive; "sealed": Expression + Contexts; "failed": build() refused
    ops,          \* Ingredients::ops, the operation list
    consts,       \* Ingredients::consts, the constant pool
    d_added,      \* Builder::d_added, hash -> node id
    d_nextvar,    \* Builder::d_nextvar
    d_deferred,   \* Builder::d_deferred (a Result<void>)
    ret,          \* what the last Builder call / build() returned
    shiftUB,      \* what the build makes of the out-of-range shift in Bitmap::set/reset
    divUB,        \* what the build makes of an integer division by zero
    ctx,          \* ctx[1]: Context created with cache = true, ctx[2]: with cache = false
    result,       \* result[c]: what the last evaluate on Context c returned
    written,      \* written[c]: node ids whose entry the last evaluate on Context c assigned
    lastOp,       \* the operation that produced this state
    given,        \* history: the ingredients the Builder was constructed from
    issued,       \* history: the op, branch and fun calls that returned an id, each with
                  \* that id
    repeated,     \* history: the ids that earlier calls returned for the node the last
                  \* op, branch or fun call made
    unknownRef    \* history: the last call was handed an id that is not in the list

vars == <<phase, ops, consts, d_added, d_nextvar, d_deferred, ret, shiftUB, divUB, ctx, result, written, lastOp,
         given, issued, repeated, unknownRef>>

----------------------------------------------------------------------------
\* Bounds of the model.

\* Largest operation list the Builder calls of the model grow.
MaxOps == 3
\* Most arguments a fun() call of the model passes.
MaxArgs == 1
\* Length of the long raw operation lists (more nodes than an int has bits).
LongLen == 34

----------------------------------------------------------------------------
\* Store values: Variant<Name, int, bool> holds null, an int or a bool.

Null      == [t |-> "null", v |-> 0]
IntV(n)   == [t |-> "int",  v |-> n]
BoolV(b)  == [t |-> "bool", v |-> IF b THEN 1 ELSE 0]

\* Variant::operator bool(): true if the stored value is not null.
StoreBool(s) == s.t # "null"

\* Result<Store> / Result<void> / Result<op::Id>: a value or an error.
\* An error carries its kind and the fields of its Details.
Ok(v) ==
    [ok |-> TRUE, val |-> v, kind |-> "", op |-> <<>>, id |-> 0, arg |-> 0, name |-> "", cause |-> <<>>]
Error(kind, op, arg, name, cause) ==
    [ok |-> FALSE, val |-> Null, kind |-> kind, op |-> op, id |-> 0, arg |-> arg, name |-> name,
     cause |-> cause]
\* A Builder error: the node it is about, the node's id and the offending reference.
ErrorAt(kind, op, id, arg) ==
    [ok |-> FALSE, val |-> Null, kind |-> kind, op |-> op, id |-> id, arg |-> arg, name |-> "",
     cause |-> <<>>]
OkVoid == Ok(Null)
OkId(id) == Ok(IntV(id))

\* Results::NOT_READY
NOT_READY == Error("EXPR_NOT_READY", <<>>, 0, "", <<>>)

\* The error an error was raised for, through the chain of causes.
RECURSIVE RootCause(_)
RootCause(e) == IF e.cause = <<>> THEN e ELSE RootCause(e.cause[1])

----------------------------------------------------------------------------
\* Operation nodes (op::Const, op::Var, op::Unary, op::Binary, op::Ternary, op::Extension).
\* refs is what refers() reports: the pool index of a Const/Var, the argument ids otherwise.

Const(sub)            == [kind |-> "Const",     fn |-> "",   fun |-> 0,   refs |-> <<sub>>,      name |-> ""]
Var(sub, name)        == [kind |-> "Var",       fn |-> "",   fun |-> 0,   refs |-> <<sub>>,      name |-> name]
Unary(fn, arg)        == [kind |-> "Unary",     fn |-> fn,   fun |-> 0,   refs |-> <<arg>>,      name |-> ""]
Binary(fn, lhs, rhs)  == [kind |-> "Binary",    fn |-> fn,   fun |-> 0,   refs |-> <<lhs, rhs>>, name |-> ""]
Ternary(c, t, f)      == [kind |-> "Ternary",   fn |-> "",   fun |-> 0,   refs |-> <<c, t, f>>,  name |-> ""]
Extension(name, fun, args) == [kind |-> "Extension", fn |-> "", fun |-> fun, refs |-> args,     name |-> name]

IsLeaf(node) == node.kind \in {"Const", "Var"}

\* The node with identifier id of operation list opl.
At(opl, id) == opl[id + 1]

----------------------------------------------------------------------------
\* Bitmap: d_size bits in a buffer of 64-bit elements.  The buffer is the set
\* of the positions of its set bits, position = elem * ELEM_BIT + offset.

ELEM_BIT == 64
INT_BIT  == 32

ElemCount(count) == (count \div ELEM_BIT) + (IF count % ELEM_BIT # 0 THEN 1 ELSE 0)

\* Bitmap::Bitmap(count, fill)
Bitmap(count, fill) ==
    [d_size |-> count,
     d_elems |-> ElemCount(count),
     d_buffer |-> IF fill THEN 0 .. (ElemCount(count) * ELEM_BIT - 1) ELSE {}]

\* Bitmap::test
test(bm, bit) == bit \in bm.d_buffer

\* Elem(1 << offset): the shift is done in int.  Below 31 it is one bit; 1 << 31 is
\* INT_MIN, which sign-extends to bits 31..63; from 32 on the shift count is out of
\* range for int and the outcome is the build's: the count taken modulo 32, or 0.
RECURSIVE ShiftedOne(_)
ShiftedOne(offset) ==
    IF offset < INT_BIT - 1 THEN {offset}
    ELSE IF offset = INT_BIT - 1 THEN (INT_BIT - 1) .. (ELEM_BIT - 1)
    ELSE IF shiftUB = "wrap" THEN ShiftedOne(offset % INT_BIT)
    ELSE {}

ElemMask(bit) == {(bit \div ELEM_BIT) * ELEM_BIT + b : b \in ShiftedOne(bit % ELEM_BIT)}

\* Bitmap::set
set(bm, bit) == [bm EXCEPT !.d_buffer = @ \cup ElemMask(bit)]

\* Bitmap::reset
reset(bm, bit) == [bm EXCEPT !.d_buffer = @ \ ElemMask(bit)]

\* Bitmap::Bit::operator=(bool)
BitAssign(bm, bit, value) == IF value THEN set(bm, bit) ELSE reset(bm, bit)

\* Bitmap::operator~: every element is inverted, then the last element is ANDed with
\* (FILL_TRUE << trailing) >> trailing, the mask of its low ELEM_BIT - trailing bits.
BitmapNot(bm) ==
    LET all      == 0 .. (bm.d_elems * ELEM_BIT - 1)
        inverted == all \ bm.d_buffer
        trailing == bm.d_size % ELEM_BIT
        last     == bm.d_elems - 1
    IN  [bm EXCEPT !.d_buffer =
            IF trailing # 0
            THEN {b \in inverted : (b \div ELEM_BIT) # last \/ (b % ELEM_BIT) < ELEM_BIT - trailing}
            ELSE inverted]

\* Bitmap::operator&=: element-wise for the elements both buffers have.
BitmapAnd(bm, other) ==
    LET common == IF bm.d_elems < other.d_elems THEN bm.d_elems ELSE other.d_elems
    IN  [bm EXCEPT !.d_buffer = {b \in @ : b \div ELEM_BIT >= common \/ b \in other.d_buffer}]

----------------------------------------------------------------------------
\* Operator application on typed values: detail::eval applies the std functional
\* object to the values the Store holds; the overloads of null.h take part in it.
\* A call that does not compile for the argument types is OP_INCOMPATIBLE_TYPES.

Incompatible(fn) == Error("OP_INCOMPATIBLE_TYPES", <<>>, 0, fn, <<>>)

\* The functional objects of PmqlStdOpList, by what null.h overloads for them.
Arithmetic == {"plus", "minus", "multiplies", "divides", "modulus"}
Comparison == {"equal_to", "not_equal_to", "greater", "less", "greater_equal", "less_equal"}
Logical    == {"logical_and", "logical_or"}
Bitwise    == {"bit_and", "bit_or", "bit_xor"}

\* int / int and int % int: the quotient is truncated towards zero.
TruncDiv(a, b) ==
    LET q == (IF a < 0 THEN 0 - a ELSE a) \div (IF b < 0 THEN 0 - b ELSE b)
    IN  IF (a < 0) = (b < 0) THEN q ELSE 0 - q
TruncRem(a, b) == a - b * TruncDiv(a, b)

\* int & int, int | int, int ^ int on two's complement, bit by bit from the lowest.
RECURSIVE BitOp(_, _, _)
BitOp(fn, a, b) ==
    LET bit(x, y) == CASE fn = "bit_and" -> IF x = 1 /\ y = 1 THEN 1 ELSE 0
                       [] fn = "bit_or"  -> IF x = 1 \/ y = 1 THEN 1 ELSE 0
                       [] fn = "bit_xor" -> IF x # y THEN 1 ELSE 0
    IN  IF a \in {0, -1} /\ b \in {0, -1}
        THEN 0 - bit(0 - a, 0 - b)
        ELSE bit(a % 2, b % 2) + 2 * BitOp(fn, a \div 2, b \div 2)

\* What a build makes of the undefined integer division by zero: the division instruction
\* traps and the process ends with SIGFPE (x86), the instruction yields quotient 0 and
\* leaves the dividend as remainder (AArch64), or the compiler takes the divisor for
\* nonzero and divides by one.
DivOutcomes == {"trap", "zero", "one"}
SIGFPE(fn) == Error("SIGFPE", <<>>, 0, fn, <<>>)
DivByZero(fn, a) ==
    CASE divUB = "trap" -> SIGFPE(fn)
      [] divUB = "zero" -> Ok(IntV(IF fn = "divides" THEN 0 ELSE a))
      [] OTHER          -> Ok(IntV(IF fn = "divides" THEN a ELSE 0))

\* An operator applied to two ints (a bool is promoted to int 0 or 1).
ApplyTyped(fn, a, b) ==
    CASE fn = "plus"          -> Ok(IntV(a + b))
      [] fn = "minus"         -> Ok(IntV(a - b))
      [] fn = "multiplies"    -> Ok(IntV(a * b))
      [] fn = "divides"       -> IF b = 0 THEN DivByZero(fn, a) ELSE Ok(IntV(TruncDiv(a, b)))
      [] fn = "modulus"       -> IF b = 0 THEN DivByZero(fn, a) ELSE Ok(IntV(TruncRem(a, b)))
      [] fn = "equal_to"      -> Ok(BoolV(a = b))
      [] fn = "not_equal_to"  -> Ok(BoolV(a # b))
      [] fn = "greater"       -> Ok(BoolV(a > b))
      [] fn = "less"          -> Ok(BoolV(a < b))
      [] fn = "greater_equal" -> Ok(BoolV(a >= b))
      [] fn = "less_equal"    -> Ok(BoolV(a <= b))
      [] fn = "logical_and"   -> Ok(BoolV(a # 0 /\ b # 0))
      [] fn = "logical_or"    -> Ok(BoolV(a # 0 \/ b # 0))
      [] fn \in Bitwise       -> Ok(IntV(BitOp(fn, a, b)))
      [] OTHER                -> Incompatible(fn)

\* The operators null.h does not overload (&&, ||, &, |, ^): a null operand converts to
\* bool false through null::operator bool, and the built-in operator is applied.
ApplyConverted(fn, l, r) == ApplyTyped(fn, l.v, r.v)

\* A comparison that is false whenever one side is null.
compareNullFalse(fn, typedLeft) == FALSE

\* The comparisons of null.h with one null side, operator(V, null) when the typed value is
\* on the left and operator(null, V) when it is on the right: null is less than any value.
CompareNull(fn, typedLeft) ==
    CASE fn = "equal_to"      -> FALSE
      [] fn = "not_equal_to"  -> TRUE
      [] fn = "greater"       -> typedLeft
      [] fn = "less"          -> ~typedLeft
      [] fn = "greater_equal" -> typedLeft
      [] fn = "less_equal"    -> ~typedLeft

\* detail::eval<Store>(op, typed) for a Unary; a null converts to bool false.
ApplyUnary(fn, x) ==
    CASE fn = "negate"      -> Ok(IntV(0 - x.v))
      [] fn = "logical_not" -> Ok(BoolV(x.v = 0))
      [] fn = "bit_not"     -> Ok(IntV(0 - x.v - 1))
      [] OTHER -> Incompatible(fn)

\* detail::eval<Store>(op, ltyped, rtyped) for a Binary
ApplyBinary(fn, l, r) ==
    IF fn \in Arithmetic \cup Comparison
    THEN IF l.t = "null" /\ r.t = "null"
         THEN Incompatible(fn)                    \* operator(V, null) and operator(null, V) are ambiguous
         ELSE IF l.t = "null" \/ r.t = "null"
         THEN IF fn \in Arithmetic
              THEN Ok(Null)
              ELSE Ok(BoolV(CompareNull(fn, r.t = "null")))
         ELSE ApplyTyped(fn, l.v, r.v)
    ELSE ApplyConverted(fn, l, r)

\* Conversion of a typed value to bool (the Ternary condition): null is false,
\* an int is true when it is not 0.
ToBool(x) == x.t # "null" /\ x.v # 0

----------------------------------------------------------------------------
\* Invalidation bitmaps (op::bitmap::relations, op::bitmap::invalidations).

RECURSIVE relations(_, _, _, _)
RECURSIVE relationsRefs(_, _, _, _, _, _)

\* relations(ops, op, var, bitmap): marks the nodes under op that depend on the Var
\* node var; yields the return value and the bitmap as the call leaves it.
relations(opl, op, var, bitmap) ==
    IF test(bitmap, op)
    THEN [ret |-> TRUE, bitmap |-> bitmap]
    ELSE LET node == At(opl, op) IN
         CASE node.kind = "Var" ->
                LET marked == BitAssign(bitmap, op, op = var)      \* return bitmap[id] = id == var
                IN  [ret |-> test(marked, op), bitmap |-> marked]
           [] node.kind = "Const" ->
                [ret |-> FALSE, bitmap |-> bitmap]
           [] OTHER ->
                LET marked == relationsRefs(opl, op, var, bitmap, node.refs, 1)
                IN  [ret |-> test(marked, op), bitmap |-> marked]  \* return bitmap[id]

\* The callback op.refers() runs for the i-th reference and the ones after it:
\* bitmap[id] = bitmap[id] || relations(ops, ref, var, bitmap)
relationsRefs(opl, id, var, bitmap, refs, i) ==
    IF i > Len(refs)
    THEN bitmap
    ELSE LET sub == IF test(bitmap, id)
                    THEN [ret |-> TRUE, bitmap |-> bitmap]          \* || does not evaluate its right side
                    ELSE relations(opl, refs[i], var, bitmap)
         IN  relationsRefs(opl, id, var, BitAssign(sub.bitmap, id, sub.ret), refs, i + 1)

\* Identifiers of the Var nodes of an operation list, in list order.
VarIds(opl) == {id \in 0 .. (Len(opl) - 1) : At(opl, id).kind = "Var"}

\* The k-th smallest element (k from 1) of a finite set of naturals.
RECURSIVE Nth(_, _)
Nth(S, k) ==
    LET m == CHOOSE x \in S : \A y \in S : x <= y
    IN  IF k = 1 THEN m ELSE Nth(S \ {m}, k - 1)

\* invalidations(ops, inverse): one bitmap per Var node, in order of definition.
invalidations(opl, inverse) ==
    [k \in 1 .. Cardinality(VarIds(opl)) |->
        LET id == Nth(VarIds(opl), k)
            bm == relations(opl, Len(opl) - 1, id, Bitmap(Len(opl), FALSE)).bitmap
        IN  IF inverse THEN BitmapNot(bm) ELSE bm]

----------------------------------------------------------------------------
\* Results<Store>: the cache of a Context.

\* Results::Results(ops, cache)
Results(opl, cache) ==
    [d_invalidations |-> invalidations(opl, TRUE),
     d_cache         |-> cache,
     d_valid         |-> Bitmap(Len(opl), FALSE),
     d_outcomes      |-> [i \in 1 .. Len(opl) |-> NOT_READY]]

\* Results::invalidate(var)
invalidate(res, var) ==
    IF ~res.d_cache \/ var >= Len(res.d_invalidations)
    THEN res
    ELSE [res EXCEPT !.d_valid = BitmapAnd(@, res.d_invalidations[var + 1])]

\* Results::valid(op)
valid(res, op) == res.d_cache /\ test(res.d_valid, op)

\* Handle::operator= if it marked the result valid whether or not the owner caches.
handleAssignMarks(res, op, outcome) ==
    [res EXCEPT !.d_outcomes[op + 1] = outcome,
                !.d_valid = set(@, op)]

\* Results::Handle::operator=(result)
HandleAssign(res, op, outcome) ==
    [res EXCEPT !.d_outcomes[op + 1] = outcome,
                !.d_valid = IF res.d_cache THEN set(@, op) ELSE @]

\* Results::Handle::operator const Result<Store> &()
HandleGet(res, op) ==
    IF ~res.d_cache \/ valid(res, op) THEN res.d_outcomes[op + 1] ELSE NOT_READY

----------------------------------------------------------------------------
\* Context<Store, Substitute> and its Substitution slots.

\* The extension pool bound to the Builder and the Expression: ext::builtin().
ExtPool == <<"avail">>

\* Context::Context(ops, cache): one slot per Var node in list order; d_byname keeps,
\* for a name, the slot of the Var node that was visited last.
Context(opl, cache) ==
    LET n == Cardinality(VarIds(opl))
        slots == [k \in 1 .. n |->
                    [d_id |-> Nth(VarIds(opl), k),
                     d_name |-> At(opl, Nth(VarIds(opl), k)).name,
                     d_index |-> k - 1,
                     d_substitute |-> <<>>]]
        names == {slots[k].d_name : k \in 1 .. n}
    IN  [d_substitutions |-> slots,
         d_byname |-> [nm \in names |->
                          CHOOSE i \in 0 .. (n - 1) :
                              /\ slots[i + 1].d_name = nm
                              /\ \A j \in 0 .. (n - 1) : slots[j + 1].d_name = nm => j <= i],
         d_results |-> Results(opl, cache)]

\* A lookup that returns the first slot that has the name.
findFirst(c, name) ==
    IF \E i \in 1 .. Len(c.d_substitutions) : c.d_substitutions[i].d_name = name
    THEN (CHOOSE i \in 1 .. Len(c.d_substitutions) :
              /\ c.d_substitutions[i].d_name = name
              /\ \A j \in 1 .. (i - 1) : c.d_substitutions[j].d_name # name) - 1
    ELSE Len(c.d_substitutions)

\* Context::find(name): the position of the slot d_byname holds for the name, or the
\* number of slots (end()) for a name it does not hold.
find(c, name) ==
    IF name \in DOMAIN c.d_byname THEN c.d_byname[name] ELSE Len(c.d_substitutions)

\* Substitution::operator=(substitute), on the slot at position pos of the Context
SubstAssign(c, pos, value) ==
    [c EXCEPT !.d_substitutions[pos + 1].d_substitute = <<value>>,
              !.d_results = invalidate(@, c.d_substitutions[pos + 1].d_index)]

\* Substitution::eval() handing over a null value for a slot never assigned.
SubstEvalNull(slot) ==
    IF slot.d_substitute = <<>> THEN Ok(Null) ELSE Ok(slot.d_substitute[1])

\* Substitution::eval()
SubstEval(slot) ==
    IF slot.d_substitute = <<>>
    THEN Error("EXPR_BAD_SUBST", <<>>, 0, slot.d_name, <<>>)
    ELSE Ok(slot.d_substitute[1])

----------------------------------------------------------------------------
\* Evaluation (Expression::eval and the eval of each node type).  The evaluation
\* threads t = [res |-> the Results of the Context, wr |-> the ids assigned so far,
\* depth |-> the calls of eval that are active, deepest |-> the most that were active].

\* The error of an argument handed on as it is.
BadArgumentUnwrapped(node, arg, cause) == cause

\* error<err::Kind::OP_BAD_ARGUMENT>(*this, arg, cause)
BadArgument(node, arg, cause) == Error("OP_BAD_ARGUMENT", <<node>>, arg, "", <<cause>>)

\* Const::eval (Var inherits it): arg is what the pool getter returned.
ConstEval(node, var) ==
    IF ~var.ok THEN BadArgument(node, node.refs[1], var) ELSE Ok(var.val)

\* handle = ...: the Handle assignment at the end of Expression::eval
Store(t, id, outcome) ==
    [t EXCEPT !.res = HandleAssign(t.res, id, outcome), !.wr = t.wr \cup {id}]

\* A call of Expression::eval is entered, counted twice.
enterTwice(t) ==
    [t EXCEPT !.depth = @ + 2, !.deepest = IF t.depth + 2 > @ THEN t.depth + 2 ELSE @]
\* A call of Expression::eval is entered: t.depth counts the calls of eval that have not
\* returned, t.deepest is the largest count seen.
Enter(t) ==
    [t EXCEPT !.depth = @ + 1, !.deepest = IF t.depth + 1 > @ THEN t.depth + 1 ELSE @]
\* The call returns.
Leave(t, from) == [t EXCEPT !.depth = from.depth]

RECURSIVE eval(_, _, _, _)
RECURSIVE AvailEval(_, _, _, _, _)

RECURSIVE availSkipErrors(_, _, _, _, _)
\* Avail::eval if it went on to the next argument after an argument's error.
availSkipErrors(e, subs, args, i, t) ==
    IF i > Len(args)
    THEN [t |-> t, out |-> Ok(Null)]
    ELSE LET t1 == eval(e, subs, args[i], t)
             r  == HandleGet(t1.res, args[i])
         IN  IF r.ok /\ StoreBool(r.val) THEN [t |-> t1, out |-> r]
             ELSE availSkipErrors(e, subs, args, i + 1, t1)

\* Avail::eval(arg, begin, end), from the i-th argument on
AvailEval(e, subs, args, i, t) ==
    IF i > Len(args)
    THEN [t |-> t, out |-> Ok(Null)]
    ELSE LET t1 == eval(e, subs, args[i], t)
             r  == HandleGet(t1.res, args[i])
         IN  IF ~r.ok THEN [t |-> t1, out |-> r]
             ELSE IF StoreBool(r.val) THEN [t |-> t1, out |-> r]
             ELSE AvailEval(e, subs, args, i + 1, t1)

\* Pool::invoke(fun, arg, begin, end)
PoolInvoke(e, subs, node, t) ==
    IF node.fun < Len(ExtPool)
    THEN AvailEval(e, subs, node.refs, 1, t)
    ELSE [t |-> t, out |-> Error("EXPR_BAD_FUNCTION_ID", <<>>, node.fun, "", <<>>)]

\* Expression::eval(id, context)
eval(e, subs, id, caller) ==
    LET t == Enter(caller) IN
    IF valid(t.res, id)
    THEN Leave(t, caller)
    ELSE LET node == At(e.ops, id) IN
         Leave(
         CASE node.kind = "Const" ->
                Store(t, id, ConstEval(node, Ok(e.consts[node.refs[1] + 1])))
           [] node.kind = "Var" ->
                Store(t, id, ConstEval(node, SubstEval(subs[node.refs[1] + 1])))
           [] node.kind = "Unary" ->
                LET t1   == eval(e, subs, node.refs[1], t)
                    item == HandleGet(t1.res, node.refs[1])
                IN  Store(t1, id, IF ~item.ok THEN BadArgument(node, node.refs[1], item)
                                  ELSE ApplyUnary(node.fn, item.val))
           [] node.kind = "Binary" ->
                LET t1  == eval(e, subs, node.refs[1], t)
                    lhs == HandleGet(t1.res, node.refs[1])
                IN  IF ~lhs.ok
                    THEN Store(t1, id, BadArgument(node, node.refs[1], lhs))
                    ELSE LET t2  == eval(e, subs, node.refs[2], t1)
                             rhs == HandleGet(t2.res, node.refs[2])
                         IN  Store(t2, id, IF ~rhs.ok THEN BadArgument(node, node.refs[2], rhs)
                                           ELSE ApplyBinary(node.fn, lhs.val, rhs.val))
           [] node.kind = "Ternary" ->
                LET t1   == eval(e, subs, node.refs[1], t)
                    cond == HandleGet(t1.res, node.refs[1])
                IN  IF ~cond.ok
                    THEN Store(t1, id, BadArgument(node, node.refs[1], cond))
                    ELSE LET branch == IF ToBool(cond.val) THEN node.refs[2] ELSE node.refs[3]
                             t2     == eval(e, subs, branch, t1)
                         IN  Store(t2, id, HandleGet(t2.res, branch))
           [] node.kind = "Extension" ->
                LET r == PoolInvoke(e, subs, node, t)
                IN  Store(r.t, id, r.out),
         caller)

\* Expression::operator()(context): the Context after the call and the Result returned.
Evaluate(e, c) ==
    LET root == Len(e.ops) - 1
        t    == eval(e, c.d_substitutions, root,
                     [res |-> c.d_results, wr |-> {}, depth |-> 0, deepest |-> 0])
    IN  [ctx   |-> [c EXCEPT !.d_results = t.res],
         out   |-> HandleGet(t.res, root),
         wr    |-> t.wr,
         depth |-> t.deepest]

\* The evaluation ran into a division that trapped: the process ended inside the call.
Trapped(e, c) ==
    LET r == Evaluate(e, c)
    IN  \E id \in r.wr : LET o == r.ctx.d_results.d_outcomes[id + 1]
                          IN  ~o.ok /\ o.kind = "SIGFPE"

----------------------------------------------------------------------------
\* Builder<Store, Funs...>

\* std::hash of an operation.  A Const hashes to its pool index, a number.  The other
\* hashes combine the addresses and string hashes of a build with the references; they
\* are kept symbolic, as the tuple of what is combined, and two of them are equal only
\* when the values combined are equal.
NumHash(n) == [kind |-> "#", fn |-> "", fun |-> n, refs |-> <<>>, name |-> ""]
\* A hash that leaves out the index of a constant and of a variable.
HashWithoutIndex(node) ==
    CASE node.kind = "Const"     -> NumHash(0)
      [] node.kind = "Var"       -> [node EXCEPT !.refs = <<0>>]
      [] node.kind = "Extension" -> [node EXCEPT !.name = ""]
      [] OTHER                   -> node

\* The constant 0x9e3779b9 hash() adds to the hash of each value it combines, in two
\* limbs of sixteen bits (0x9e37 and 0x79b9).
GOLDEN == [hi |-> 40503, lo |-> 31161]
\* x + 0x9e3779b9 for a small x, in limbs.
AddGolden(x) == [hi |-> GOLDEN.hi + ((x + GOLDEN.lo) \div 65536), lo |-> (x + GOLDEN.lo) % 65536]
\* Names of eight bytes made so that std::hash<std::string_view> of libstdc++ (murmur,
\* which can be inverted) is 0 for "n0" (bytes ef b6 de b3 fa 1c 2d 0b) and 1 for "n1"
\* (bytes a5 2e 4c 5c e7 bd 86 6d).
CraftedNames == {"n0", "n1"}
StrHash(name) == IF name = "n0" THEN 0 ELSE 1
\* hash(0, var.id(), var.name()): the fold (h(id) + 0x9e3779b9) ^ (h(name) + 0x9e3779b9),
\* a number where the hash of the name is known, symbolic otherwise.
VarHash(node) ==
    IF node.name \in CraftedNames
    THEN LET a == AddGolden(node.refs[1])
             b == AddGolden(StrHash(node.name))
         IN  NumHash(BitOp("bit_xor", a.hi, b.hi) * 65536 + BitOp("bit_xor", a.lo, b.lo))
    ELSE node

Hash(node) ==
    CASE node.kind = "Const"     -> NumHash(node.refs[1])            \* return var.id()
      [] node.kind = "Var"       -> VarHash(node)
      [] node.kind = "Extension" -> [node EXCEPT !.name = ""]        \* unique(), fun(), refs
      [] OTHER                   -> node

\* An append that never looks an operation up.
appendAlways(opl, added, node) ==
    [ops |-> Append(opl, node),
     added |-> added \cup {[h |-> Hash(node), id |-> Len(opl)]},
     id |-> Len(opl)]

\* Builder::append(op): the operation list, d_added and the id returned.
append(opl, added, node) ==
    IF \E a \in added : a.h = Hash(node)
    THEN [ops |-> opl, added |-> added,
          id |-> (CHOOSE a \in added : a.h = Hash(node)).id]
    ELSE [ops |-> Append(opl, node),
          added |-> added \cup {[h |-> Hash(node), id |-> Len(opl)]},
          id |-> Len(opl)]

\* detail::CheckRef over the ids of a call: the first id that is not in the list.
RECURSIVE CheckRef(_, _, _)
CheckRef(opl, ids, i) ==
    IF i > Len(ids) THEN OkVoid
    ELSE IF ids[i] >= Len(opl)
         THEN ErrorAt("BUILDER_REF_TO_UNKNOWN", <<>>, ids[i], Len(opl) - 1)
         ELSE CheckRef(opl, ids, i + 1)

\* Pool::operator[](name)
PoolLookup(name) ==
    IF \E i \in 1 .. Len(ExtPool) : ExtPool[i] = name
    THEN OkId((CHOOSE i \in 1 .. Len(ExtPool) : ExtPool[i] = name) - 1)
    ELSE Error("EXPR_BAD_FUNCTION", <<>>, 0, name, <<>>)

RECURSIVE visit(_, _, _, _, _)
RECURSIVE visitRefs(_, _, _, _, _, _, _, _)

\* Builder::visit(id, visited): the Result and the visited map as the call leaves it.
\* visited is the set of the ids marked.
visit(opl, cns, nextvar, id, visited) ==
    IF id >= Len(opl)
    THEN [ret |-> ErrorAt("BUILDER_REF_TO_UNKNOWN", <<>>, id, Len(opl) - 1), visited |-> visited]
    ELSE LET node == At(opl, id)
             seen == visited \cup {id}
         IN  IF IsLeaf(node)
             THEN LET next == IF node.kind = "Const" THEN Len(cns) ELSE nextvar
                  IN  [ret |-> IF node.refs[1] >= next
                               THEN ErrorAt("BUILDER_BAD_SUBSTITUTION", <<node>>, id, node.refs[1])
                               ELSE OkVoid,
                       visited |-> seen]
             ELSE visitRefs(opl, cns, nextvar, id, node, 1, OkVoid, seen)

\* The callback of visit for the i-th reference of node and the ones after it.
visitRefs(opl, cns, nextvar, id, node, i, refcheck, visited) ==
    IF i > Len(node.refs)
    THEN [ret |-> refcheck, visited |-> visited]
    ELSE IF ~refcheck.ok
    THEN visitRefs(opl, cns, nextvar, id, node, i + 1, refcheck, visited)
    ELSE IF node.refs[i] >= id
    THEN visitRefs(opl, cns, nextvar, id, node, i + 1,
                   ErrorAt("BUILDER_BAD_ARGUMENT", <<node>>, id, node.refs[i]), visited)
    ELSE LET sub == visit(opl, cns, nextvar, node.refs[i], visited)
         IN  visitRefs(opl, cns, nextvar, id, node, i + 1, sub.ret, sub.visited)

\* No search for an operation that was not visited.
DanglingIgnored(opl, visited) == {}

\* std::find(visited.begin(), visited.end(), false): the ids never visited.
Dangling(opl, visited) == {id \in 0 .. (Len(opl) - 1) : id \notin visited}

\* The unvisited id a search from the back would find.
lastDangling(opl, visited) ==
    CHOOSE d \in Dangling(opl, visited) : \A o \in Dangling(opl, visited) : d >= o

\* std::distance(visited.begin(), dangling): the first id std::find meets.
firstDangling(opl, visited) ==
    CHOOSE d \in Dangling(opl, visited) : \A o \in Dangling(opl, visited) : d <= o

\* Builder::operator()(): the Result of sealing.
Seal(opl, cns, nextvar, deferred) ==
    IF Len(opl) = 0 THEN ErrorAt("BUILDER_EMPTY", <<>>, 0, 0)
    ELSE IF ~deferred.ok THEN deferred
    ELSE LET v == visit(opl, cns, nextvar, Len(opl) - 1, {})
         IN  IF ~v.ret.ok THEN v.ret
             ELSE IF Dangling(opl, v.visited) # {}
             THEN LET id == firstDangling(opl, v.visited)
                  IN  ErrorAt("BUILDER_DANGLING", <<At(opl, id)>>, id, 0)
             ELSE OkVoid

\* A constructor that counts the variables and checks nothing.
rawScanUnchecked(opl, cns, current, nextvar) ==
    [d_nextvar |-> Cardinality({i \in 1 .. Len(opl) : opl[i].kind = "Var"}), d_deferred |-> OkVoid]

\* Builder::Builder(consts, ops, extensions): d_nextvar and d_deferred after the loop over the
\* operations from current on; the loop stops at the first error.
RECURSIVE RawScan(_, _, _, _)
RawScan(opl, cns, current, nextvar) ==
    IF current >= Len(opl)
    THEN [d_nextvar |-> nextvar, d_deferred |-> OkVoid]
    ELSE LET node == At(opl, current) IN
         CASE node.kind = "Const" ->
                IF node.refs[1] >= Len(cns)
                THEN [d_nextvar |-> nextvar,
                      d_deferred |-> ErrorAt("BUILDER_BAD_SUBSTITUTION", <<node>>, current, node.refs[1])]
                ELSE RawScan(opl, cns, current + 1, nextvar)
           [] node.kind = "Var" ->
                RawScan(opl, cns, current + 1, nextvar + 1)
           [] OTHER ->
                IF \E i \in 1 .. Len(node.refs) : node.refs[i] >= current
                THEN [d_nextvar |-> nextvar,
                      d_deferred |-> ErrorAt("BUILDER_BAD_ARGUMENT", <<node>>, current,
                           node.refs[CHOOSE i \in 1 .. Len(node.refs) :
                               /\ node.refs[i] >= current
                               /\ \A j \in 1 .. (i - 1) : node.refs[j] < current])]
                ELSE RawScan(opl, cns, current + 1, nextvar)

----------------------------------------------------------------------------
\* Inputs of the model.

\* Values passed to constant().
ConstVals == {IntV(1), Null}
\* Names passed to var().
Names == {"a", "b"}
\* Names passed to fun().
FunNames == {"avail", "nofun"}
\* Functional objects passed to op<Fn>().
UnaryFns == {"negate"}
BinaryFns == {"plus"}
\* Values assigned to substitution slots.
AssignVals == {IntV(0), IntV(1), Null}

\* Sequences of at most MaxArgs identifiers out of 0 .. top.
ArgLists(top) == UNION {[1 .. n -> 0 .. top] : n \in 0 .. MaxArgs}

\* Raw (consts, ops) pairs handed to Builder(consts, ops), as a deserialiser would.
\* The long list: a, b, -a, a balanced tree of sums over -b (heap index h at node
\* LongLen - 1 - h), and the root if(a, -a, tree).
HeapSize == LongLen - 4
HeapId(h) == LongLen - 1 - h
LongExpr ==
    [consts |-> <<>>,
     ops |-> [i \in 1 .. LongLen |->
                LET id == i - 1
                    h  == LongLen - 1 - id
                IN  IF id = 0 THEN Var(0, "a")
                    ELSE IF id = 1 THEN Var(1, "b")
                    ELSE IF id = 2 THEN Unary("negate", 0)
                    ELSE IF id = LongLen - 1 THEN Ternary(0, 2, LongLen - 2)
                    ELSE IF 2 * h + 1 <= HeapSize THEN Binary("plus", HeapId(2 * h + 1), HeapId(2 * h))
                    ELSE IF 2 * h <= HeapSize THEN Unary("negate", HeapId(2 * h))
                    ELSE Unary("negate", 1)]]
RawInputs ==
    { LongExpr,
      [consts |-> <<>>,        ops |-> <<Var(0, "a")>>],
      [consts |-> <<>>,        ops |-> <<Var(0, "a"), Unary("negate", 0), Binary("plus", 0, 1)>>],
      [consts |-> <<>>,        ops |-> <<Var(0, "a"), Var(1, "b"), Binary("plus", 0, 1)>>],
      [consts |-> <<>>,        ops |-> <<Var(0, "a"), Var(1, "a"), Binary("minus", 0, 1)>>],
      [consts |-> <<>>,        ops |-> <<Var(1, "a"), Var(0, "b"), Binary("minus", 0, 1)>>],
      [consts |-> <<IntV(1)>>, ops |-> <<Const(0), Var(0, "a"), Binary("minus", 0, 1)>>],
      [consts |-> <<IntV(1)>>, ops |-> <<Var(0, "a"), Var(1, "b"), Const(0), Ternary(0, 1, 2)>>],
      [consts |-> <<>>,        ops |-> <<Var(0, "a"), Var(1, "b"), Extension("avail", 0, <<0, 1>>)>>],
      [consts |-> <<>>,        ops |-> <<Unary("negate", 1), Var(0, "a")>>],
      [consts |-> <<>>,        ops |-> <<Var(0, "a"), Unary("negate", 1)>>],
      [consts |-> <<>>,        ops |-> <<Var(0, "a"), Var(1, "b")>>],
      [consts |-> <<IntV(1)>>, ops |-> <<Const(1)>>],
      [consts |-> <<>>,        ops |-> <<Const(0), Var(0, "a"), Unary("negate", 2)>>],
      [consts |-> <<>>,        ops |-> <<Var(0, "a"), Var(1, "b"), Extension("avail", 0, <<2>>)>>] }

\* The builds to tell apart for an operation list: how a build divides by zero matters
\* only where the list divides.
DivBuilds(opl) ==
    IF \E i \in 1 .. Len(opl) : opl[i].kind = "Binary" /\ opl[i].fn \in {"divides", "modulus"}
    THEN DivOutcomes
    ELSE {"trap"}

\* The last call made: its name and its inputs.
Call(name, pos, val, nm) == [op |-> name, pos |-> pos, val |-> val, name |-> nm]
NoOp == Call("init", 0, Null, "")

----------------------------------------------------------------------------
\* The state machine.

\* A Builder right after construction: Builder(extensions) or Builder(consts, ops, extensions).
\* The outcomes of the out-of-range shift a Builder's list can meet: the shift is out of
\* range for a bit offset of INT_BIT or more, which takes a Bitmap of more than INT_BIT
\* bits, one per node.
ShiftBuilds(opl) == IF Len(opl) > INT_BIT THEN {"wrap", "zero"} ELSE {"wrap"}

Init ==
    /\ phase = "build"
    /\ \/ /\ ops = <<>>
          /\ consts = <<>>
          /\ d_nextvar = 0
          /\ d_deferred = OkVoid
          /\ given = [consts |-> <<>>, ops |-> <<>>]
       \/ \E raw \in RawInputs :
             /\ given = raw
             /\ ops = raw.ops
             /\ consts = raw.consts
             /\ d_nextvar = RawScan(raw.ops, raw.consts, 0, 0).d_nextvar
             /\ d_deferred = RawScan(raw.ops, raw.consts, 0, 0).d_deferred
    /\ d_added = {}
    /\ ret = d_deferred
    /\ shiftUB \in ShiftBuilds(ops)
    /\ divUB \in DivBuilds(ops)
    /\ ctx = <<>>
    /\ result = <<>>
    /\ written = <<>>
    /\ lastOp = NoOp
    /\ issued = {}
    /\ repeated = {}
    /\ unknownRef = FALSE

\* Some argument id of a call is not in the list.
OutOfRange(ids) == \E i \in 1 .. Len(ids) : ids[i] >= Len(ops)

BuilderCall ==
    /\ phase = "build"
    /\ Len(ops) < MaxOps
    /\ UNCHANGED <<phase, d_deferred, shiftUB, divUB, ctx, result, written, given>>

\* Builder::constant(value)
constant(value) ==
    /\ BuilderCall
    /\ lastOp' = Call("constant", 0, value, "")
    /\ LET r == append(ops, d_added, Const(Len(consts))) IN
        /\ ops' = r.ops
        /\ d_added' = r.added
        /\ consts' = IF r.id = Len(r.ops) - 1 THEN Append(consts, value) ELSE consts
        /\ ret' = OkId(r.id)
    /\ UNCHANGED <<d_nextvar, issued>>
    /\ repeated' = {}
    /\ unknownRef' = FALSE

\* Builder::var(name)
var(name) ==
    /\ BuilderCall
    /\ lastOp' = Call("var", 0, Null, name)
    /\ LET r == append(ops, d_added, Var(d_nextvar, name)) IN
        /\ ops' = r.ops
        /\ d_added' = r.added
        /\ d_nextvar' = IF r.id = Len(r.ops) - 1 THEN d_nextvar + 1 ELSE d_nextvar
        /\ ret' = OkId(r.id)
    /\ UNCHANGED <<consts, issued>>
    /\ repeated' = {}
    /\ unknownRef' = FALSE

\* An append that does not wait for the check: the node is added, the check is returned.
appendThenCheck(check, node) ==
    LET r == append(ops, d_added, node) IN
    /\ ops' = r.ops
    /\ d_added' = r.added
    /\ ret' = IF check.ok THEN OkId(r.id) ELSE check
    /\ issued' = issued
    /\ repeated' = {}

\* The tail of op<Fn>(), branch() and fun(): checkref().and_then(append)
CheckedAppend(check, node) ==
    IF ~check.ok
    THEN /\ ret' = check
         /\ UNCHANGED <<ops, d_added, issued>>
         /\ repeated' = {}
    ELSE LET r == append(ops, d_added, node) IN
         /\ ops' = r.ops
         /\ d_added' = r.added
         /\ ret' = OkId(r.id)
         /\ issued' = issued \cup {[node |-> node, id |-> r.id]}
         /\ repeated' = {e.id : e \in {i \in issued : i.node = node}}

\* Builder::op<Fn>(id) for a unary Fn
op1(fn, id) ==
    /\ BuilderCall
    /\ lastOp' = Call("op", 0, Null, fn)
    /\ CheckedAppend(CheckRef(ops, <<id>>, 1), Unary(fn, id))
    /\ unknownRef' = OutOfRange(<<id>>)
    /\ UNCHANGED <<consts, d_nextvar>>

\* Builder::op<Fn>(lhs, rhs) for a binary Fn
op2(fn, lhs, rhs) ==
    /\ BuilderCall
    /\ lastOp' = Call("op", 0, Null, fn)
    /\ CheckedAppend(CheckRef(ops, <<lhs, rhs>>, 1), Binary(fn, lhs, rhs))
    /\ unknownRef' = OutOfRange(<<lhs, rhs>>)
    /\ UNCHANGED <<consts, d_nextvar>>

\* Builder::branch(cond, iftrue, iffalse)
branch(cond, iftrue, iffalse) ==
    /\ BuilderCall
    /\ lastOp' = Call("branch", 0, Null, "")
    /\ CheckedAppend(CheckRef(ops, <<cond, iftrue, iffalse>>, 1), Ternary(cond, iftrue, iffalse))
    /\ unknownRef' = OutOfRange(<<cond, iftrue, iffalse>>)
    /\ UNCHANGED <<consts, d_nextvar>>

\* A fun that looks the name up before it checks the references.
funLookupFirst(name, ids) ==
    /\ BuilderCall
    /\ lastOp' = Call("fun", 0, Null, name)
    /\ LET lookup == PoolLookup(name)
           check  == IF lookup.ok THEN CheckRef(ops, ids, 1) ELSE lookup
       IN  CheckedAppend(IF check.ok THEN lookup ELSE check, Extension(name, lookup.val.v, ids))
    /\ unknownRef' = OutOfRange(ids)
    /\ UNCHANGED <<consts, d_nextvar>>

\* Builder::fun(name, ids): the references are checked, then the name is looked up.
fun(name, ids) ==
    /\ BuilderCall
    /\ lastOp' = Call("fun", 0, Null, name)
    /\ LET check  == CheckRef(ops, ids, 1)
           lookup == IF check.ok THEN PoolLookup(name) ELSE check
       IN  CheckedAppend(lookup, Extension(name, lookup.val.v, ids))
    /\ unknownRef' = OutOfRange(ids)
    /\ UNCHANGED <<consts, d_nextvar>>

\* Builder::operator()() &&, and on success Expression::context(true) and context(false)
build ==
    /\ phase = "build"
    /\ LET r == Seal(ops, consts, d_nextvar, d_deferred) IN
        /\ ret' = r
        /\ IF r.ok
           THEN /\ phase' = "sealed"
                /\ ctx' = <<Context(ops, TRUE), Context(ops, FALSE)>>
                /\ result' = <<<<>>, <<>>>>
                /\ written' = <<{}, {}>>
           ELSE /\ phase' = "failed"
                /\ UNCHANGED <<ctx, result, written>>
    /\ lastOp' = Call("build", 0, Null, "")
    /\ UNCHANGED <<ops, consts, d_added, d_nextvar, d_deferred, shiftUB, divUB, given, issued>>
    /\ repeated' = {}
    /\ unknownRef' = FALSE

Expr == [ops |-> ops, consts |-> consts]

\* Positions of the substitution slots of the Contexts.
Slots == IF phase = "sealed" THEN 0 .. (Len(ctx[1].d_substitutions) - 1) ELSE {}

\* context[pos] = value, on both Contexts
Assign(pos, value) ==
    /\ phase = "sealed"
    /\ ctx' = [c \in 1 .. 2 |-> SubstAssign(ctx[c], pos, value)]
    /\ lastOp' = Call("assign", pos, value, "")
    /\ UNCHANGED <<phase, ops, consts, d_added, d_nextvar, d_deferred, ret, shiftUB, divUB, result, written, given, issued, repeated, unknownRef>>

\* context(name) and, when it returns a slot, an assignment to that slot, on both Contexts;
\* CONTEXT_BAD_VARIABLE for a name find does not know leaves the Contexts as they are.
AssignByName(name, value) ==
    /\ phase = "sealed"
    /\ LET pos == find(ctx[1], name) IN
       IF pos = Len(ctx[1].d_substitutions)
       THEN /\ lastOp' = Call("CONTEXT_BAD_VARIABLE", pos, Null, name)
            /\ UNCHANGED ctx
       ELSE /\ lastOp' = Call("assign", pos, value, name)
            /\ ctx' = [c \in 1 .. 2 |-> SubstAssign(ctx[c], pos, value)]
    /\ UNCHANGED <<phase, ops, consts, d_added, d_nextvar, d_deferred, ret, shiftUB, divUB, result, written, given, issued, repeated, unknownRef>>

\* expr(context), on both Contexts.  A division that traps ends the process inside the
\* call: nothing is returned.
EvaluateBoth ==
    /\ phase = "sealed"
    /\ IF \E c \in 1 .. 2 : Trapped(Expr, ctx[c])
       THEN /\ phase' = "crashed"
            /\ UNCHANGED <<ctx, result, written>>
       ELSE /\ phase' = phase
            /\ ctx' = [c \in 1 .. 2 |-> Evaluate(Expr, ctx[c]).ctx]
            /\ result' = [c \in 1 .. 2 |-> <<Evaluate(Expr, ctx[c]).out>>]
            /\ written' = [c \in 1 .. 2 |-> Evaluate(Expr, ctx[c]).wr]
    /\ lastOp' = Call("evaluate", 0, Null, "")
    /\ UNCHANGED <<ops, consts, d_added, d_nextvar, d_deferred, ret, shiftUB, divUB, given, issued, repeated, unknownRef>>

\* Builder calls, then build.
Next ==
    \/ \E value \in ConstVals : constant(value)
    \/ \E name \in Names : var(name)
    \/ \E fn \in UnaryFns, id \in 0 .. Len(ops) : op1(fn, id)
    \/ \E fn \in BinaryFns, lhs \in 0 .. Len(ops), rhs \in 0 .. Len(ops) : op2(fn, lhs, rhs)
    \/ \E cond \in 0 .. Len(ops), iftrue \in 0 .. Len(ops), iffalse \in 0 .. Len(ops) :
          branch(cond, iftrue, iffalse)
    \/ \E name \in FunNames, ids \in ArgLists(Len(ops)) : fun(name, ids)
    \/ build

Spec == Init /\ [][Next]_vars

\* A Builder made from a raw list, build, then assignments and evaluations.
NextEval ==
    \/ build
    \/ \E pos \in Slots, value \in AssignVals : Assign(pos, value)
    \/ EvaluateBoth

SpecEval == Init /\ [][NextEval]_vars

\* A Builder constructed from one raw list of a catalogue.
InitWith(inputs) ==
    /\ phase = "build"
    /\ \E raw \in inputs :
          /\ given = raw
          /\ ops = raw.ops
          /\ consts = raw.consts
          /\ d_nextvar = RawScan(raw.ops, raw.consts, 0, 0).d_nextvar
          /\ d_deferred = RawScan(raw.ops, raw.consts, 0, 0).d_deferred
    /\ d_added = {}
    /\ ret = d_deferred
    /\ shiftUB \in {"wrap", "zero"}
    /\ divUB \in DivBuilds(ops)
    /\ ctx = <<>>
    /\ result = <<>>
    /\ written = <<>>
    /\ lastOp = NoOp
    /\ issued = {}
    /\ repeated = {}
    /\ unknownRef = FALSE

\* Expressions whose variables share names, and one whose variables do not.
NameInputs ==
    { [consts |-> <<>>, ops |-> <<Var(0, "a"), Var(1, "a"), Binary("minus", 0, 1)>>],
      [consts |-> <<>>, ops |-> <<Var(0, "a"), Var(1, "b"), Binary("plus", 0, 1)>>] }

\* build, then assignments by position and by name, and evaluations.
NextNames ==
    \/ build
    \/ \E pos \in Slots, value \in AssignVals : Assign(pos, value)
    \/ \E name \in Names, value \in AssignVals : AssignByName(name, value)
    \/ EvaluateBoth

SpecNames == InitWith(NameInputs) /\ [][NextNames]_vars

\* The expressions a <op> b, one for every binary functional object of PmqlStdOpList.
OpInputs ==
    { [consts |-> <<>>, ops |-> <<Var(0, "a"), Var(1, "b"), Binary(fn, 0, 1)>>] :
        fn \in Arithmetic \cup Comparison \cup Logical \cup Bitwise }
\* Values assigned to a and b: an int, a bool and null.
OpVals == {IntV(6), BoolV(TRUE), Null}

\* build, then assignments and evaluations.
NextOps ==
    \/ build
    \/ \E pos \in Slots, value \in OpVals : Assign(pos, value)
    \/ EvaluateBoth

SpecOps == InitWith(OpInputs) /\ [][NextOps]_vars

\* The expression of the Expression showcase: if (a + b > 0, a + b - 42, a + b + null).
ShowcaseExpr ==
    [consts |-> <<IntV(42), IntV(0), Null>>,
     ops |-> <<Var(0, "a"), Var(1, "b"), Const(0), Const(1), Const(2),
               Binary("plus", 0, 1),
               Binary("plus", 5, 4),
               Binary("minus", 5, 2),
               Binary("greater", 5, 3),
               Ternary(8, 7, 6)>>]
\* The values the showcase assigns to a (slot 0) and to b (slot 1).
ShowcaseVals == <<{IntV(11), IntV(0 - 20)}, {IntV(77), IntV(13)}>>

\* build, then assignments of the showcase's values and evaluations.
NextShowcase ==
    \/ build
    \/ \E pos \in Slots : \E value \in ShowcaseVals[pos + 1] : Assign(pos, value)
    \/ EvaluateBoth

SpecShowcase == InitWith({ShowcaseExpr}) /\ [][NextShowcase]_vars

\* The expression of the Extensions showcase, avail(null, b, c), and avail over two
\* operations on one variable, avail(a + null, -a).
AvailExpr ==
    [consts |-> <<Null>>,
     ops |-> <<Const(0), Var(0, "b"), Var(1, "c"), Extension("avail", 0, <<0, 1, 2>>)>>]
AvailInputs ==
    { AvailExpr,
      [consts |-> <<Null>>,
       ops |-> <<Var(0, "a"), Const(0), Binary("plus", 0, 1), Unary("negate", 0),
                 Extension("avail", 0, <<2, 3>>)>>] }
\* The values the showcase assigns to b and c.
AvailVals == {Null, IntV(21), IntV(42)}

\* build, then assignments and evaluations.
NextAvail ==
    \/ build
    \/ \E pos \in Slots, value \in AvailVals : Assign(pos, value)
    \/ EvaluateBoth

SpecAvail == InitWith(AvailInputs) /\ [][NextAvail]_vars

\* Two Contexts of one Expression, each used on its own.
TwoInputs ==
    { [consts |-> <<IntV(1)>>, ops |-> <<Var(0, "a"), Const(0), Binary("plus", 0, 1)>>],
      [consts |-> <<>>, ops |-> <<Var(0, "a"), Var(1, "b"), Binary("minus", 0, 1)>>] }
TwoVals == {IntV(0), Null}

\* context[pos] = value on one Context, if the Results its slots refer to were one object
\* shared by the Contexts of the Expression.
assignOnShared(c, pos, value) ==
    /\ phase = "sealed"
    /\ ctx' = [o \in 1 .. 2 |->
                 IF o = c THEN SubstAssign(ctx[o], pos, value)
                 ELSE [ctx[o] EXCEPT !.d_results =
                          invalidate(@, ctx[o].d_substitutions[pos + 1].d_index)]]
    /\ lastOp' = Call("assignOn", pos, value, "")
    /\ UNCHANGED <<phase, ops, consts, d_added, d_nextvar, d_deferred, ret, shiftUB, divUB, result, written, given, issued, repeated, unknownRef>>

\* context[pos] = value on one of the Contexts
AssignOn(c, pos, value) ==
    /\ phase = "sealed"
    /\ ctx' = [ctx EXCEPT ![c] = SubstAssign(ctx[c], pos, value)]
    /\ lastOp' = Call("assignOn", pos, value, "")
    /\ UNCHANGED <<phase, ops, consts, d_added, d_nextvar, d_deferred, ret, shiftUB, divUB, result, written, given, issued, repeated, unknownRef>>

\* expr(context) on one of the Contexts
EvaluateOn(c) ==
    /\ phase = "sealed"
    /\ IF Trapped(Expr, ctx[c])
       THEN /\ phase' = "crashed"
            /\ UNCHANGED <<ctx, result, written>>
       ELSE /\ phase' = phase
            /\ ctx' = [ctx EXCEPT ![c] = Evaluate(Expr, ctx[c]).ctx]
            /\ result' = [result EXCEPT ![c] = <<Evaluate(Expr, ctx[c]).out>>]
            /\ written' = [written EXCEPT ![c] = Evaluate(Expr, ctx[c]).wr]
    /\ lastOp' = Call("evaluateOn", c, Null, "")
    /\ UNCHANGED <<ops, consts, d_added, d_nextvar, d_deferred, ret, shiftUB, divUB, given, issued, repeated, unknownRef>>

\* build, then assignments and evaluations on either Context, in any order.
NextTwo ==
    \/ build
    \/ \E c \in 1 .. 2, pos \in Slots, value \in TwoVals : AssignOn(c, pos, value)
    \/ \E c \in 1 .. 2 : EvaluateOn(c)

SpecTwo == InitWith(TwoInputs) /\ [][NextTwo]_vars

\* The expressions a / b and a % b, and a quotient used by another operation, a + a / b.
DivInputs ==
    { [consts |-> <<>>, ops |-> <<Var(0, "a"), Var(1, "b"), Binary("divides", 0, 1)>>],
      [consts |-> <<>>, ops |-> <<Var(0, "a"), Var(1, "b"), Binary("modulus", 0, 1)>>],
      [consts |-> <<>>, ops |-> <<Var(0, "a"), Var(1, "b"), Binary("divides", 0, 1),
                                  Binary("plus", 0, 2)>>] }
\* Values assigned to a and b: zero, another int and null.
DivVals == {IntV(0), IntV(7), Null}

\* build, then assignments and evaluations.
NextDiv ==
    \/ build
    \/ \E pos \in Slots, value \in DivVals : Assign(pos, value)
    \/ EvaluateBoth

SpecDiv == InitWith(DivInputs) /\ [][NextDiv]_vars

\* A Bitmap on its own: sizes around the widths of int and of an element, and the bits
\* the calls name.
BitmapSizes == {1, 31, 32, 33, 34, 63, 64, 65}
BitmapBits == {0, 1, 30, 31, 32, 33, 64}

\* Bitmap(count, fill), held in ctx[1]
InitBitmap ==
    /\ phase = "bitmap"
    /\ \E count \in BitmapSizes, fill \in BOOLEAN : ctx = <<Bitmap(count, fill)>>
    /\ ops = <<>>
    /\ consts = <<>>
    /\ given = [consts |-> <<>>, ops |-> <<>>]
    /\ d_nextvar = 0
    /\ d_deferred = OkVoid
    /\ d_added = {}
    /\ ret = OkVoid
    /\ shiftUB \in {"wrap", "zero"}
    /\ divUB = "trap"
    /\ result = <<>>
    /\ written = <<>>
    /\ lastOp = NoOp
    /\ issued = {}
    /\ repeated = {}
    /\ unknownRef = FALSE

\* What a call on the Bitmap leaves alone.
BitmapCall ==
    /\ phase = "bitmap"
    /\ UNCHANGED <<phase, ops, consts, d_added, d_nextvar, d_deferred, ret, shiftUB, divUB, result, written, given, issued, repeated, unknownRef>>

\* bitmap.set(bit), for a bit below the size
BitSet(bit) ==
    /\ BitmapCall
    /\ bit < ctx[1].d_size
    /\ ctx' = <<set(ctx[1], bit)>>
    /\ lastOp' = Call("set", bit, Null, "")

\* bitmap.reset(bit), for a bit below the size
BitReset(bit) ==
    /\ BitmapCall
    /\ bit < ctx[1].d_size
    /\ ctx' = <<reset(ctx[1], bit)>>
    /\ lastOp' = Call("reset", bit, Null, "")

\* bitmap = ~bitmap
BitNot ==
    /\ BitmapCall
    /\ ctx' = <<BitmapNot(ctx[1])>>
    /\ lastOp' = Call("not", 0, Null, "")

NextBitmap ==
    \/ \E bit \in BitmapBits : BitSet(bit)
    \/ \E bit \in BitmapBits : BitReset(bit)
    \/ BitNot

SpecBitmap == InitBitmap /\ [][NextBitmap]_vars

----------------------------------------------------------------------------
\* Vocabulary of the properties.

Root == Len(ops) - 1
NodeIds == 0 .. (Len(ops) - 1)
\* The identifiers a node depends on (a leaf's reference is a pool index, not a node).
DepIds(opl, id) ==
    IF IsLeaf(At(opl, id)) THEN {} ELSE {At(opl, id).refs[i] : i \in 1 .. Len(At(opl, id).refs)}

\* The nodes that are in S or reach a node of S through dependency edges.
RECURSIVE Up(_, _)
Up(opl, S) ==
    LET more == S \cup {id \in 0 .. (Len(opl) - 1) : DepIds(opl, id) \cap S # {}}
    IN  IF more = S THEN S ELSE Up(opl, more)
Dependents(opl, v) == Up(opl, {v})

\* The nodes that are in S or are reached from a node of S through dependency edges.
RECURSIVE Down(_, _)
Down(opl, S) ==
    LET more == S \cup UNION {DepIds(opl, id) \cap (0 .. (Len(opl) - 1)) : id \in S}
    IN  IF more = S THEN S ELSE Down(opl, more)

\* The Var node whose slot is at position pos of a Context.
VarNode(pos) == ctx[1].d_substitutions[pos + 1].d_id
\* What is stored for a node, and what the Handle of the node hands over.
Outcome(c, id) == ctx[c].d_results.d_outcomes[id + 1]
Got(c, id) == HandleGet(ctx[c].d_results, id)
Evaluated == phase = "sealed" /\ lastOp.op = "evaluate"
Assigned == phase = "sealed" /\ lastOp.op = "assign"

----------------------------------------------------------------------------
\* C1: a caching and a non-caching Context that receive the same assignments and
\* evaluations return identical results from every evaluation.
C1_CacheEquivalence ==
    Evaluated => result[1] = result[2]

\* C2: with caching enabled, right after an assignment to the slot of variable v no node
\* that is v's Var node or depends on it transitively is marked valid.
C2_DependentsInvalidated ==
    Assigned => \A id \in Dependents(ops, VarNode(lastOp.pos)) : ~valid(ctx[1].d_results, id)

\* C3: with caching enabled, an assignment to variable v changes neither the validity
\* flag nor the cached outcome of any node that does not depend on v's Var node, for
\* operation lists of any size.
C3_NonDependentsUntouched ==
    [][(phase = "sealed" /\ lastOp'.op = "assign") =>
          \A id \in NodeIds \ Dependents(ops, VarNode(lastOp'.pos)) :
             /\ valid(ctx'[1].d_results, id) = valid(ctx[1].d_results, id)
             /\ ctx'[1].d_results.d_outcomes[id + 1] = ctx[1].d_results.d_outcomes[id + 1]]_vars

\* C4: the non-inverted invalidation bitmap of a Var node v has bit i set if and only if
\* node i is v or reaches v through dependency edges.
C4_BitmapIsDependents ==
    phase = "sealed" =>
        \A k \in 1 .. Cardinality(VarIds(ops)) : \A i \in NodeIds :
            test(invalidations(ops, FALSE)[k], i) <=> i \in Dependents(ops, Nth(VarIds(ops), k))

\* C5: in every operation list accepted by build the dependency ids of each node are
\* smaller than the node's position and every node is reachable from the root.
C5_SealedWellFormed ==
    phase = "sealed" =>
        /\ \A id \in NodeIds : \A dep \in DepIds(ops, id) : dep < id
        /\ Down(ops, {Root}) = NodeIds
C5_Witness ==
    /\ phase = "sealed"
    /\ d_added # {}
    /\ Len(ops) = MaxOps
    /\ At(ops, Root).kind = "Ternary"

\* The branch a Ternary root selects, and the other one, when its condition has a value.
RootNode == At(ops, Root)
Selected(c) == IF ToBool(Outcome(c, RootNode.refs[1]).val) THEN RootNode.refs[2] ELSE RootNode.refs[3]
Unselected(c) == IF ToBool(Outcome(c, RootNode.refs[1]).val) THEN RootNode.refs[3] ELSE RootNode.refs[2]

\* C6: evaluating a Ternary whose condition and selected branch have values succeeds
\* with the selected branch's value and writes no cache entry of the nodes that only the
\* unselected branch uses.
C6_TernaryShortCircuit ==
    (Evaluated /\ RootNode.kind = "Ternary") =>
        \A c \in 1 .. 2 :
            (Outcome(c, RootNode.refs[1]).ok /\ Outcome(c, Selected(c)).ok) =>
                /\ result[c][1] = Outcome(c, Selected(c))
                /\ written[c] \cap (Down(ops, {Unselected(c)})
                                      \ Down(ops, {RootNode.refs[1], Selected(c)})) = {}

\* The dependency whose error a node evaluated last receives: the first one, in the
\* order of evaluation, that hands over an error.
RECURSIVE FirstFailing(_, _, _)
FirstFailing(c, refs, i) ==
    IF i > Len(refs) THEN <<>>
    ELSE IF ~Got(c, refs[i]).ok THEN <<refs[i]>>
    ELSE IF StoreBool(Got(c, refs[i]).val) THEN <<>>
    ELSE FirstFailing(c, refs, i + 1)
FailingDep(c, id) ==
    LET node == At(ops, id) IN
    CASE node.kind = "Unary" -> IF ~Got(c, node.refs[1]).ok THEN <<node.refs[1]>> ELSE <<>>
      [] node.kind = "Binary" ->
            IF ~Got(c, node.refs[1]).ok THEN <<node.refs[1]>>
            ELSE IF ~Got(c, node.refs[2]).ok THEN <<node.refs[2]>> ELSE <<>>
      [] node.kind = "Ternary" ->
            IF ~Got(c, node.refs[1]).ok THEN <<node.refs[1]>>
            ELSE LET chosen == IF ToBool(Got(c, node.refs[1]).val) THEN node.refs[2] ELSE node.refs[3]
                 IN  IF ~Got(c, chosen).ok THEN <<chosen>> ELSE <<>>
      [] node.kind = "Extension" -> FirstFailing(c, node.refs, 1)
      [] OTHER -> <<>>
\* The error of kind OP_BAD_ARGUMENT that names a node, its argument and a cause.
Wrapped(node, arg, cause) ==
    [ok |-> FALSE, val |-> Null, kind |-> "OP_BAD_ARGUMENT", op |-> <<node>>, id |-> 0,
     arg |-> arg, name |-> "", cause |-> <<cause>>]
\* The nodes that wrap the error of a dependency: all but a Ternary handing over its
\* selected branch and an Extension.
Wraps(node, dep) ==
    \/ node.kind \in {"Unary", "Binary"}
    \/ node.kind = "Ternary" /\ dep = node.refs[1]

Slot(c, id) == ctx[c].d_substitutions[At(ops, id).refs[1] + 1]
Fine(c, id) ==
    \/ At(ops, id).kind = "Const"
    \/ At(ops, id).kind = "Var" /\ Slot(c, id).d_substitute # <<>>
RECURSIVE ReadsUnset(_, _)
ReadsUnset(c, id) ==
    LET node == At(ops, id) IN
    CASE node.kind = "Var" -> Slot(c, id).d_substitute = <<>>
      [] node.kind = "Const" -> FALSE
      [] node.kind = "Binary" ->
            \/ ReadsUnset(c, node.refs[1])
            \/ Fine(c, node.refs[1]) /\ ReadsUnset(c, node.refs[2])
      [] node.kind = "Extension" -> Len(node.refs) > 0 /\ ReadsUnset(c, node.refs[1])
      [] OTHER -> ReadsUnset(c, node.refs[1])

C9_ErrorCached ==
    [][(Evaluated /\ lastOp'.op = "evaluate" /\ ~result[1][1].ok) =>
          (result'[1] = result[1] /\ written'[1] = {})]_vars

\* The nodes made by earlier calls with an equal input.
EqualConsts(value) ==
    {id \in NodeIds : /\ At(ops, id).kind = "Const"
                      /\ At(ops, id).refs[1] < Len(consts)
                      /\ consts[At(ops, id).refs[1] + 1] = value}
EqualVars(name) ==
    {id \in NodeIds : At(ops, id).kind = "Var" /\ At(ops, id).name = name}
\* The nodes of the two kinds of call that C10 is about, in the step that makes the call.
EqualBefore ==
    IF lastOp'.op = "constant" THEN EqualConsts(lastOp'.val)
    ELSE IF lastOp'.op = "var" THEN EqualVars(lastOp'.name)
    ELSE {}

----------------------------------------------------------------------------
\* C11: an op, branch or fun call that repeats an earlier call of the Builder (same
\* functor or name, same argument ids) returns the id the earlier call returned and
\* does not lengthen the operation list.
C11_SameCallSameId ==
    [][(lastOp'.op \in {"op", "branch", "fun"} /\ repeated' # {}) =>
          (ops' = ops /\ \A id \in repeated' : ret' = OkId(id))]_vars
C11_Witness ==
    /\ phase = "build"
    /\ lastOp.op = "op"
    /\ repeated # {}
    /\ \E e \in issued : e.node.kind = "Unary" /\ ret = OkId(e.id)

----------------------------------------------------------------------------
\* The list has no defect a seal reports before it looks for unreachable nodes: it is not
\* empty, the constructor deferred no error, every dependency id is smaller than the id of
\* the node that names it and every leaf names an entry of its pool.
NoOtherDefect ==
    /\ Len(ops) > 0
    /\ d_deferred.ok
    /\ \A id \in NodeIds :
         LET node == At(ops, id) IN
         CASE node.kind = "Const" -> node.refs[1] < Len(consts)
           [] node.kind = "Var"   -> node.refs[1] < d_nextvar
           [] OTHER               -> \A dep \in DepIds(ops, id) : dep < id
\* The nodes the root does not reach.
Unreachable == NodeIds \ Down(ops, {Root})

\* C12: sealing a list that is valid but for a node the root does not reach fails with
\* BUILDER_DANGLING, and the error names the smallest unreachable id and its node.
C12_DanglingSmallest ==
    (lastOp.op = "build" /\ NoOtherDefect /\ Unreachable # {}) =>
        /\ phase = "failed"
        /\ ret.kind = "BUILDER_DANGLING"
        /\ \A o \in Unreachable : ret.id <= o
        /\ ret.id \in Unreachable
        /\ ret.op = <<At(ops, ret.id)>>
C12_Witness ==
    /\ lastOp.op = "build"
    /\ NoOtherDefect
    /\ Cardinality(Unreachable) = 2
    /\ ret.kind = "BUILDER_DANGLING"

----------------------------------------------------------------------------
\* The positions of the given list that hold a defective node: a Const that names no entry
\* of the given pool, or an operator, Ternary or Extension with a dependency id greater
\* than or equal to its position.
Defective ==
    {id \in 0 .. (Len(given.ops) - 1) :
        LET node == At(given.ops, id) IN
        CASE node.kind = "Const" -> node.refs[1] >= Len(given.consts)
          [] node.kind = "Var"   -> FALSE
          [] OTHER               -> \E dep \in DepIds(given.ops, id) : dep >= id}
\* The first defective node of the given list is an operator, Ternary or Extension.
FirstDefectIsArgument ==
    \E id \in Defective :
        /\ \A o \in Defective : id <= o
        /\ ~IsLeaf(At(given.ops, id))

\* C13: a Builder constructed from a raw list whose first defective node is an operator,
\* Ternary or Extension with a dependency id greater than or equal to its position is never
\* sealed: status() is BUILDER_BAD_ARGUMENT from construction on, whatever is appended,
\* and sealing returns that error.
C13_ForwardRefNeverSealed ==
    FirstDefectIsArgument =>
        /\ phase # "sealed"
        /\ d_deferred.kind = "BUILDER_BAD_ARGUMENT"
        /\ lastOp.op \in {"init", "build"} => ret = d_deferred
C13_Witness ==
    /\ FirstDefectIsArgument
    /\ lastOp.op = "build"
    /\ Len(ops) > Len(given.ops)
    /\ ret.kind = "BUILDER_BAD_ARGUMENT"

----------------------------------------------------------------------------
\* C14: an op<Fn> or branch call with an argument id greater than or equal to the size of
\* the operation list returns BUILDER_REF_TO_UNKNOWN and leaves the operation list, the
\* constant pool, the variable counter and the dedup table as they were.
C14_UnknownRefLeavesBuilder ==
    [][(lastOp'.op \in {"op", "branch"} /\ unknownRef') =>
          /\ ret'.kind = "BUILDER_REF_TO_UNKNOWN"
          /\ ret'.id >= Len(ops)
          /\ UNCHANGED <<ops, consts, d_nextvar, d_added>>]_vars
C14_Witness ==
    /\ lastOp.op = "branch"
    /\ unknownRef
    /\ ret.kind = "BUILDER_REF_TO_UNKNOWN"
    /\ ret.id = Len(ops)
    /\ d_added # {}
    /\ consts # <<>>
    /\ d_nextvar > 0

----------------------------------------------------------------------------
\* The names the extension pool of the Builder holds.
Registered == {ExtPool[i] : i \in 1 .. Len(ExtPool)}

\* C15 as stated: a fun call with a name the pool does not hold returns EXPR_BAD_FUNCTION
\* and appends nothing, whatever its argument ids are.
C15_LookupFirst ==
    [][(lastOp'.op = "fun" /\ lastOp'.name \notin Registered) =>
          (ret'.kind = "EXPR_BAD_FUNCTION" /\ ops' = ops)]_vars

\* C15: fun(name, ids) checks the argument ids first. An id that is not in the list gives
\* BUILDER_REF_TO_UNKNOWN, whether the name is registered or not; with every id in the
\* list an unregistered name gives EXPR_BAD_FUNCTION for that name; in both cases nothing
\* is appended. Otherwise the call returns the id of an Extension node of that name.
C15_RefsFirst ==
    [][lastOp'.op = "fun" =>
          IF unknownRef'
          THEN /\ ret'.kind = "BUILDER_REF_TO_UNKNOWN"
               /\ ret'.id >= Len(ops)
               /\ UNCHANGED <<ops, consts, d_nextvar, d_added>>
          ELSE IF lastOp'.name \notin Registered
          THEN /\ ret'.kind = "EXPR_BAD_FUNCTION"
               /\ ret'.name = lastOp'.name
               /\ UNCHANGED <<ops, consts, d_nextvar, d_added>>
          ELSE /\ ret'.ok
               /\ At(ops', ret'.val.v).kind = "Extension"
               /\ At(ops', ret'.val.v).name = lastOp'.name]_vars
C15_Witness ==
    /\ lastOp.op = "fun"
    /\ lastOp.name \notin Registered
    /\ unknownRef
    /\ ret.kind = "BUILDER_REF_TO_UNKNOWN"
    /\ Len(ops) > 0

----------------------------------------------------------------------------
\* The positions of the slots of the Var nodes that have the name.
SlotsNamed(name) ==
    {pos \in Slots : ctx[1].d_substitutions[pos + 1].d_name = name}
FirstSlot(name) == CHOOSE pos \in SlotsNamed(name) : \A o \in SlotsNamed(name) : pos <= o
LastSlot(name) == CHOOSE pos \in SlotsNamed(name) : \A o \in SlotsNamed(name) : pos >= o
\* The value the slot at a position of a Context holds after the step.
Substitute(c, pos) == ctx'[c].d_substitutions[pos + 1].d_substitute

\* C16 as stated: an assignment through the by-name lookup lands in the slot of the first
\* Var node that has the name.
C16_FirstVarWins ==
    [][\A name \in Names, value \in AssignVals :
          (SlotsNamed(name) # {} /\ AssignByName(name, value)) =>
              Substitute(1, FirstSlot(name)) = <<value>>]_vars

\* C16: when several Var nodes have the same name, the by-name lookup returns the slot of
\* the last such Var node in list order: an assignment through it lands in that slot and
\* leaves the slots of the earlier Var nodes of that name as they were.
C16_LastVarWins ==
    [][\A name \in Names, value \in AssignVals :
          (SlotsNamed(name) # {} /\ AssignByName(name, value)) =>
              /\ Substitute(1, LastSlot(name)) = <<value>>
              /\ Substitute(2, LastSlot(name)) = <<value>>
              /\ \A pos \in Slots \ {LastSlot(name)} :
                    Substitute(1, pos) = ctx[1].d_substitutions[pos + 1].d_substitute]_vars
C16_Witness ==
    /\ lastOp.op = "assign"
    /\ lastOp.name # ""
    /\ Cardinality(SlotsNamed(lastOp.name)) = 2
    /\ ctx[1].d_substitutions[LastSlot(lastOp.name) + 1].d_substitute = <<lastOp.val>>
    /\ ctx[1].d_substitutions[FirstSlot(lastOp.name) + 1].d_substitute = <<>>

----------------------------------------------------------------------------
\* The value the slot at a position holds; it was assigned.
Operand(pos) == ctx[2].d_substitutions[pos + 1].d_substitute[1]
\* The expression a <op> b was evaluated with both variables assigned.
AppliedTo(fns) ==
    /\ lastOp.op = "evaluate"
    /\ Len(ops) = 3
    /\ RootNode.kind = "Binary"
    /\ RootNode.fn \in fns
    /\ \A pos \in Slots : ctx[2].d_substitutions[pos + 1].d_substitute # <<>>
\* Exactly one of the two operands is null.
OneNull == (Operand(0) = Null) # (Operand(1) = Null)
\* The evaluation returned this, with and without the cache.
Returned(outcome) == result[1] = <<outcome>> /\ result[2] = <<outcome>>

\* C17: an arithmetic or a bitwise binary operator applied to null and a typed value, in
\* either order, evaluates successfully to null.
C17_NullPropagates ==
    (AppliedTo(Arithmetic \cup Bitwise) /\ OneNull) => Returned(Ok(Null))

----------------------------------------------------------------------------
\* The showcase expression was evaluated with a and b assigned.
ShowcaseEvaluated ==
    /\ lastOp.op = "evaluate"
    /\ given = ShowcaseExpr
    /\ \A pos \in Slots : ctx[1].d_substitutions[pos + 1].d_substitute # <<>>
\* What if (a + b > 0, a + b - 42, a + b + null) is for the values a and b hold.
ShowcaseValue ==
    LET sum == Operand(0).v + Operand(1).v
    IN  IF sum > 0 THEN IntV(sum - 42) ELSE Null

\* C19: on one caching Context reused across assignments to a and b, every evaluation of
\* if (a + b > 0, a + b - 42, a + b + null) returns a + b - 42 when a + b > 0 for the
\* values a and b hold at the evaluation, and null otherwise.
C19_ShowcaseOnCache ==
    ShowcaseEvaluated => result[1] = <<Ok(ShowcaseValue)>>

----------------------------------------------------------------------------
\* The arguments of the avail call at the root.
AvailArgs == RootNode.refs
\* avail(...) was evaluated.
AvailEvaluated ==
    /\ lastOp.op = "evaluate"
    /\ RootNode.kind = "Extension"
\* The value of the i-th argument in a Context ends the loop of avail: an error or a
\* value that is not null.
Decisive(c, i) ==
    LET r == Got(c, AvailArgs[i]) IN IF r.ok THEN StoreBool(r.val) ELSE TRUE
Deciders(c) == {i \in 1 .. Len(AvailArgs) : Decisive(c, i)}
Decider(c) == CHOOSE i \in Deciders(c) : \A j \in Deciders(c) : i <= j
\* The slot at a position was assigned.
IsSet(pos) == ctx[2].d_substitutions[pos + 1].d_substitute # <<>>

----------------------------------------------------------------------------
\* The step is an assignment or an evaluation on the Context c.
UseOf(c) ==
    \/ \E pos \in Slots, value \in TwoVals : AssignOn(c, pos, value)
    \/ EvaluateOn(c)
\* The step changed what the Context c holds or last returned.
Touched(c) == ctx'[c] # ctx[c] \/ result'[c] # result[c] \/ written'[c] # written[c]

----------------------------------------------------------------------------
\* C22: no evaluation aborts or crashes: every evaluation of a sealed expression, a
\* division or a modulus by an integer zero included, returns a Result, a value or an
\* error, from each Context.
C22_EvaluateReturns ==
    lastOp.op = "evaluate" =>
        /\ phase = "sealed"
        /\ \A c \in 1 .. 2 : Len(result[c]) = 1

----------------------------------------------------------------------------
\* The deepest nesting of Expression::eval calls in an evaluation that starts from what
\* the Context holds now.
EvalDepth(c) == Evaluate(Expr, ctx[c]).depth

\* C23: for every sealed Expression and every state of a Context, caching or not, an
\* evaluation terminates and the nesting of its eval calls is at least one and at most
\* the number of nodes of the operation list.
C23_DepthBounded ==
    phase = "sealed" => \A c \in 1 .. 2 : EvalDepth(c) \in 1 .. Len(ops)
\* An evaluation of a three-node chain was as deep as the list is long.
C23_Witness ==
    /\ phase = "sealed"
    /\ lastOp.op = "evaluate"
    /\ Len(ops) = 3
    /\ written[2] = NodeIds
    /\ EvalDepth(2) = Len(ops)

----------------------------------------------------------------------------
\* A Context with the substitutions of c and Results as the constructor leaves them.
Fresh(c) == [c EXCEPT !.d_results = Results(ops, c.d_results.d_cache)]
\* The nodes an evaluation from scratch assigns under the substitutions of c.
Needed(c) == Evaluate(Expr, Fresh(c)).wr

\* C24: in a Context created with caching disabled no node is ever reported valid and no
\* validity bit is ever set, after any assignments and evaluations; every evaluation
\* assigns every node an evaluation from scratch would assign and returns what that
\* evaluation would return.
C24_NoCacheRecomputes ==
    phase = "sealed" =>
        /\ \A id \in NodeIds : ~valid(ctx[2].d_results, id)
        /\ ctx[2].d_results.d_valid = Bitmap(Len(ops), FALSE)
        /\ lastOp.op = "evaluate" =>
              /\ written[2] = Needed(ctx[2])
              /\ result[2] = <<Evaluate(Expr, Fresh(ctx[2])).out>>
\* A second evaluation on the Context without a cache assigned every node again, where
\* the caching Context assigned none.
C24_Witness ==
    /\ phase = "sealed"
    /\ lastOp.op = "evaluate"
    /\ Len(ops) = 3
    /\ written[1] = {}
    /\ written[2] = NodeIds
    /\ result[2][1].ok

----------------------------------------------------------------------------
\* The outcome of node id in an evaluation of that node from scratch, under the
\* substitutions of the Context c.
FromScratch(c, id) ==
    eval(Expr, ctx[c].d_substitutions, id,
         [res |-> Results(ops, ctx[c].d_results.d_cache), wr |-> {}, depth |-> 0, deepest |-> 0]
        ).res.d_outcomes[id + 1]

\* C25: with caching enabled, in every state reached by assignments and evaluations, each
\* node marked valid holds the outcome that an evaluation of that node from scratch under
\* the current substitutions produces.
C25_ValidIsCurrent ==
    phase = "sealed" =>
        \A id \in NodeIds : valid(ctx[1].d_results, id) => Outcome(1, id) = FromScratch(1, id)

----------------------------------------------------------------------------
\* C26: after an evaluation on a caching Context the root node is marked valid, the
\* result returned is the outcome stored for the root, and it is not the EXPR_NOT_READY
\* placeholder, whatever the length of the operation list.
C26_RootValidAfterEvaluate ==
    (phase = "sealed" /\ lastOp.op = "evaluate") =>
        /\ valid(ctx[1].d_results, Root)
        /\ result[1] = <<Outcome(1, Root)>>
        /\ result[1] # <<NOT_READY>>

----------------------------------------------------------------------------
\* The slot of the Contexts that was made for the Var node id: its position is also the
\* number of the invalidation bitmap an assignment to it applies.
SlotOf(id) == CHOOSE pos \in Slots : ctx[1].d_substitutions[pos + 1].d_id = id

\* C27: in every sealed Expression, one sealed from a raw operation list included, the
\* k-th Var node in list order carries the variable index k (from 0): the slot the node
\* reads in an evaluation is the slot made for it, which is the slot an assignment to
\* that variable writes and whose invalidation bitmap the assignment applies.
C27_VarIndexIsPosition ==
    phase = "sealed" =>
        /\ \A k \in 1 .. Cardinality(VarIds(ops)) : At(ops, Nth(VarIds(ops), k)).refs[1] = k - 1
        /\ \A id \in VarIds(ops) :
              /\ At(ops, id).refs[1] = SlotOf(id)
              /\ ctx[1].d_substitutions[SlotOf(id) + 1].d_index = SlotOf(id)

----------------------------------------------------------------------------
\* The bits of the Bitmap, and those other than one bit.
BitIds == 0 .. (ctx[1].d_size - 1)
OtherBits(bit) == {o \in BitIds : o # bit /\ test(ctx'[1], o) # test(ctx[1], o)}

\* C28: for a Bitmap of any size and a bit below the size, set(bit) makes test(bit) true,
\* reset(bit) makes test(bit) false, and neither changes the value of another bit.
C28_SetResetOneBit ==
    [][/\ lastOp'.op = "set" =>
             (test(ctx'[1], lastOp'.pos) /\ OtherBits(lastOp'.pos) = {})
       /\ lastOp'.op = "reset" =>
             (~test(ctx'[1], lastOp'.pos) /\ OtherBits(lastOp'.pos) = {})]_vars

\* C29: for a Bitmap of any size n, operator~ returns a Bitmap of size n in which every
\* bit below n has the opposite value of that bit in the original.
C29_NotInvertsEveryBit ==
    [][lastOp'.op = "not" =>
          /\ ctx'[1].d_size = ctx[1].d_size
          /\ \A bit \in BitIds : test(ctx'[1], bit) # test(ctx[1], bit)]_vars

----------------------------------------------------------------------------
\* A Builder that is given constants and variables whose names have known hashes.
NextHash ==
    \/ \E value \in ConstVals : constant(value)
    \/ \E name \in CraftedNames : var(name)
    \/ \E fn \in UnaryFns, id \in 0 .. Len(ops) : op1(fn, id)
    \/ build

SpecHash == Init /\ [][NextHash]_vars

\* The node a successful call of constant() or var() answers with.
Answered == ops'[ret'.val.v + 1]

\* C30: a Builder call returns the id of a node structurally equal to the one asked
\* for: var(name) answers with a Var node of that name, constant(value) with a Const node
\* whose pool entry is the value, and every Const node has its own pool entry, so that
\* no different nodes are merged and no constant or variable is dropped.
C30_ReturnsOnlyEqualNode ==
    [][/\ (lastOp'.op = "var" /\ ret'.ok) =>
             (Answered.kind = "Var" /\ Answered.name = lastOp'.name)
       /\ (lastOp'.op = "constant" /\ ret'.ok) =>
             /\ Answered.kind = "Const"
             /\ Answered.refs[1] < Len(consts')
             /\ consts'[Answered.refs[1] + 1] = lastOp'.val]_vars

====
